---- MODULE Spec2Model ----
(***************************************************************************)
(* Model of the customs-clearance front end's HTTP client                  *)
(* (presentation-tier/frontend/src/lib/api.ts, class ApiClient) and of the *)
(* hybrid recommendation engine the specification describes.               *)
(*                                                                         *)
(* The client is a state machine over the browser state it touches         *)
(* (localStorage, window.location) and the calls in flight.  Every call    *)
(* goes: method invoked -> request interceptor -> request on the wire ->   *)
(* response / error -> response interceptor -> the async method's          *)
(* continuation -> the caller's await.  JavaScript runs each event to      *)
(* completion, so a settled promise is observed by its awaiting caller     *)
(* before the next network or user event is handled.                       *)
(*                                                                         *)
(* The Korean message literals of api.ts are written as ASCII stand-ins,   *)
(* one distinct string per distinct literal.                               *)
(***************************************************************************)
EXTENDS Integers, Sequences, FiniteSets, TLC

(* ------------------------------------------------------------------ *)
(* Optional values: null / undefined is None, a value v is Some(v).    *)
(* ------------------------------------------------------------------ *)
None == <<>>

Some(v) == <<v>>

\* JavaScript truthiness of an optional string: null, undefined and "" are falsy.
Truthy(opt) == opt # None /\ opt[1] # ""

\* a || d  for an optional string a
OrElse(opt, d) == IF Truthy(opt) THEN opt[1] ELSE d

\* data?.name : the field of an optional object, undefined when the object is null
Field(obj, name) == IF obj = None THEN None ELSE obj[1][name]

(* ------------------------------------------------------------------ *)
(* Bounds                                                              *)
(* ------------------------------------------------------------------ *)
\* Calls the application makes in one behaviour; they may all be in flight together.
MaxCalls == 2

CallIds == 1..MaxCalls

(* ------------------------------------------------------------------ *)
(* Program constants                                                   *)
(* ------------------------------------------------------------------ *)
\* axios.create({ timeout: 10000 })
ClientTimeout == 10000

MsgDefault == "MSG_SERVER_ERROR_DEFAULT"

MsgForbidden == "MSG_403_NO_ACCESS"

MsgNotFound == "MSG_404_RESOURCE_NOT_FOUND"

MsgInternal == "MSG_500_INTERNAL_SERVER_ERROR"

MsgNetwork == "MSG_CHECK_NETWORK_CONNECTION"

MsgSetup == "MSG_REQUEST_SETUP_FAILED"

\* new Date().toISOString(): the clock's reading, one symbolic value
Now == "NOW"

LoginPage == "/login"

TokenKey == "auth_token"

(* ------------------------------------------------------------------ *)
(* Inputs                                                              *)
(* ------------------------------------------------------------------ *)
Methods == {"get", "post", "put", "patch", "delete",
            "uploadFile", "downloadFile", "healthCheck"}

\* The methods that pass the caller's AxiosRequestConfig on to axios.
ConfigMethods == {"get", "post", "put", "patch", "delete"}

\* The caller's url argument.
Urls == {"/users"}

\* The caller's config, as far as the claims read it: its timeout, if it sets one
\* (0 is axios's "no timeout").
Configs == {None, Some(0), Some(5000)}

\* Values localStorage may hold under 'auth_token'.
Tokens == {"", "t1", "t2"}

ErrorStatuses == {400, 401, 403, 404, 500}

\* Bodies of an error response: none, an empty object, a full error envelope,
\* an empty message, a code alone.
ErrorBodies ==
    { None,
      Some([message |-> None, code |-> None, timestamp |-> None, details |-> None]),
      Some([message |-> Some("m"), code |-> Some("E1"),
            timestamp |-> Some("ts"), details |-> Some("dt")]),
      Some([message |-> Some(""), code |-> None, timestamp |-> None, details |-> None]),
      Some([message |-> None, code |-> Some("E1"), timestamp |-> None, details |-> None]) }

\* Bodies of a 2xx response to an envelope method: JSON null, an envelope with
\* data, an object without a data field.
OkBodies == { None, Some([data |-> Some("d1")]), Some([data |-> None]) }

\* The body of a 2xx response under responseType 'blob'.
BlobBody == Some([data |-> Some("blob")])

VARIABLES
    hasWindow,      \* typeof window !== 'undefined'
    localStorage,   \* key -> optional string
    location,       \* window.location.href
    loggedOut,      \* history: a 401 was handled and no token was stored since
    calls,          \* call id -> the call's record
    corpus,         \* the engine's live corpus
    cache,          \* the engine's Query Cache: a set of cache entries
    last            \* the engine's latest response to recommend

apiVars == <<hasWindow, localStorage, location, loggedOut, calls>>

engineVars == <<corpus, cache, last>>

vars == <<apiVars, engineVars>>

(* ------------------------------------------------------------------ *)
(* localStorage                                                        *)
(* ------------------------------------------------------------------ *)
getItem(store, key) == store[key]

removeItem(store, key) == [store EXCEPT ![key] = None]

setItem(store, key, value) == [store EXCEPT ![key] = Some(value)]

(* ------------------------------------------------------------------ *)
(* ApiClient                                                           *)
(* ------------------------------------------------------------------ *)
\* getAuthToken(): the stored token in a browser, null elsewhere
getAuthToken(win, store) == IF win THEN getItem(store, TokenKey) ELSE None

\* Variant: the interceptor tests the token against null only.
AuthHeaderAnyToken(token) == IF token # None THEN Some("Bearer " \o token[1]) ELSE None

\* The request interceptor's header: Authorization is set iff the token is truthy.
AuthHeader(token) == IF Truthy(token) THEN Some("Bearer " \o token[1]) ELSE None

\* Variant: uploadFile sends its form with PUT.
HttpMethodUploadPut(m) ==
    CASE m = "get" -> "GET"
      [] m = "post" -> "POST"
      [] m = "put" -> "PUT"
      [] m = "patch" -> "PATCH"
      [] m = "delete" -> "DELETE"
      [] m = "uploadFile" -> "PUT"
      [] m = "downloadFile" -> "GET"
      [] m = "healthCheck" -> "GET"

\* The axios verb each client method calls.
HttpMethod(m) ==
    CASE m = "get" -> "GET"
      [] m = "post" -> "POST"
      [] m = "put" -> "PUT"
      [] m = "patch" -> "PATCH"
      [] m = "delete" -> "DELETE"
      [] m = "uploadFile" -> "POST"
      [] m = "downloadFile" -> "GET"
      [] m = "healthCheck" -> "GET"

\* The url each client method requests: healthCheck is get('/health').
RequestUrl(m, u) == IF m = "healthCheck" THEN "/health" ELSE u

\* The config each client method hands to axios: the caller's for the five verbs,
\* one built inside uploadFile / downloadFile (neither sets a timeout), none for
\* healthCheck.
RequestConfig(m, c) == IF m \in ConfigMethods THEN c ELSE None

\* Variant: the instance is created without a timeout (axios's default, 0).
EffectiveTimeoutNoDefault(c) == IF c = None THEN 0 ELSE c[1]

\* axios mergeConfig: the call's timeout when it sets one, else the instance's.
EffectiveTimeout(c) == IF c = None THEN ClientTimeout ELSE c[1]

\* The ApiError the response interceptor builds for a server response,
\* before the status switch.
BaseApiError(resp) ==
    [ message   |-> OrElse(Field(resp.data, "message"), MsgDefault),
      code      |-> OrElse(Field(resp.data, "code"), "UNKNOWN_ERROR"),
      timestamp |-> OrElse(Field(resp.data, "timestamp"), Now),
      path      |-> OrElse(resp.url, ""),
      details   |-> Field(resp.data, "details") ]

\* Variant: case 403 lacks its break and falls through to case 404.
StatusSwitchFallThrough(status, e) ==
    CASE status = 403 -> [e EXCEPT !.message = MsgNotFound]
      [] status = 404 -> [e EXCEPT !.message = MsgNotFound]
      [] status = 500 -> [e EXCEPT !.message = MsgInternal]
      [] OTHER -> e

\* switch (error.response.status)
StatusSwitch(status, e) ==
    CASE status = 403 -> [e EXCEPT !.message = MsgForbidden]
      [] status = 404 -> [e EXCEPT !.message = MsgNotFound]
      [] status = 500 -> [e EXCEPT !.message = MsgInternal]
      [] OTHER -> e

ServerApiError(resp) == StatusSwitch(resp.status, BaseApiError(resp))

NetworkApiError(url) ==
    [ message |-> MsgNetwork, code |-> "NETWORK_ERROR", timestamp |-> Now,
      path |-> OrElse(url, ""), details |-> None ]

SetupApiError ==
    [ message |-> MsgSetup, code |-> "REQUEST_SETUP_ERROR", timestamp |-> Now,
      path |-> "", details |-> None ]

\* The response interceptor's error handler: error.response, else error.request,
\* else neither.  err = [response: optional, request: BOOLEAN, url: optional,
\* code: axios's own error code, which the handler never reads].
ResponseErrorHandler(err) ==
    IF err.response # None THEN ServerApiError(err.response[1])
    ELSE IF err.request THEN NetworkApiError(err.url)
    ELSE SetupApiError

\* Variant: handleUnauthorized redirects without removing the token.
UnauthorizedStorageKept(win, store) == store

\* handleUnauthorized(): its effect on localStorage and on window.location
UnauthorizedStorage(win, store) == IF win THEN removeItem(store, TokenKey) ELSE store

UnauthorizedLocation(win, loc) == IF win THEN LoginPage ELSE loc

\* Whether the handler calls handleUnauthorized for this error.
IsUnauthorized(err) == err.response # None /\ err.response[1].status = 401

\* What the async method does with a 2xx response: response.data.data for the
\* envelope methods, the DOM download for downloadFile.
Resolved(value) == [kind |-> "resolved", value |-> value, error |-> None]

Rejected(e) == [kind |-> "rejected", value |-> None, error |-> Some(e)]

TypeError == [name |-> "TypeError"]

ReferenceError == [name |-> "ReferenceError"]

Continuation(m, win, body) ==
    IF m = "downloadFile"
    THEN IF win THEN Resolved(None) ELSE Rejected(ReferenceError)
    ELSE IF body = None THEN Rejected(TypeError)
    ELSE Resolved(Field(body, "data"))

(* ------------------------------------------------------------------ *)
(* The hybrid recommendation engine (specification sections 3 to 8).   *)
(* Classification codes are written as numbers in code order: 10121 is *)
(* "0101.21".  The lexical and semantic indices are taken at their     *)
(* interface: for a corpus and a query they yield the candidate        *)
(* entries with their blended scores.  The engine configuration is     *)
(* fixed, so a cache key is (corpus fingerprint, query fingerprint).   *)
(* ------------------------------------------------------------------ *)
\* Largest k a caller asks for.
MaxK == 2

CorpusIds == {1, 2}

Queries == {"live horse", "horse live", ""}

Ks == 0..MaxK

\* The outcome of the external augment capability for one call.
AugOutcomes == {"off", "ok", "error", "timeout"}

\* Corpus fingerprint: a hash of the content, here one tag per distinct content.
Fingerprint(c) == <<"sha", c>>

\* Query fingerprint: case-folded, whitespace-collapsed, token set stable-sorted.
QueryFingerprint(q) ==
    CASE q = "live horse" -> "horse|live"
      [] q = "horse live" -> "horse|live"
      [] OTHER -> ""

Cand(code, blended) == [code |-> code, blended |-> blended]

\* The candidates the two indices return, with blended scores in hundredths.
\* The semantic signal reads word order, so equivalent queries may score apart;
\* an empty query has no candidates.
Candidates(c, q) ==
    CASE c = 1 /\ q = "live horse" -> {Cand(10121, 80), Cand(10129, 60)}
      [] c = 1 /\ q = "horse live" -> {Cand(10129, 70)}
      [] c = 2 /\ q = "live horse" -> {Cand(10121, 50), Cand(10129, 50), Cand(10210, 90)}
      [] c = 2 /\ q = "horse live" -> {Cand(10121, 50), Cand(10129, 90), Cand(10210, 50)}
      [] OTHER -> {}

\* a ranks before b: blended score descending, then code ascending
Before(a, b) == a.blended > b.blended \/ (a.blended = b.blended /\ a.code < b.code)

RECURSIVE SortCandidates(_)
SortCandidates(S) ==
    IF S = {} THEN <<>>
    ELSE LET best == CHOOSE a \in S : \A b \in S \ {a} : Before(a, b)
         IN <<best>> \o SortCandidates(S \ {best})

\* Variant: the slice keeps one entry too many.
TruncateOffByOne(list, k) == SubSeq(list, 1, IF k + 1 < Len(list) THEN k + 1 ELSE Len(list))

Truncate(list, k) == SubSeq(list, 1, IF k < Len(list) THEN k ELSE Len(list))

\* Hybrid Ranker on a cache miss: sort, then truncate to k.
Rank(c, q, k) == Truncate(SortCandidates(Candidates(c, q)), k)

\* Query Cache: get never fails, a miss is None.
CacheKey(c, q) == [fp |-> Fingerprint(c), qfp |-> QueryFingerprint(q)]

Matches(entry, key) == entry.fp = key.fp /\ entry.qfp = key.qfp

\* Variant: the lookup compares the query fingerprint alone.
getAnyFingerprint(store, key) ==
    IF \E e \in store : e.qfp = key.qfp
    THEN Some((CHOOSE e \in store : e.qfp = key.qfp).result)
    ELSE None

get(store, key) ==
    IF \E e \in store : Matches(e, key)
    THEN Some((CHOOSE e \in store : Matches(e, key)).result)
    ELSE None

put(store, key, value) ==
    {e \in store : ~Matches(e, key)} \cup {[fp |-> key.fp, qfp |-> key.qfp, result |-> value]}

\* Variant: the list returned to the caller, augmented or not, is what is cached.
WriteThroughFinal(store, key, ranked, final, putOk) ==
    IF putOk THEN put(store, key, final) ELSE store

\* What recommend writes through on a miss: the ranking, unless the write fails
\* (CacheWriteError is logged and swallowed).
WriteThrough(store, key, ranked, final, putOk) ==
    IF putOk THEN put(store, key, ranked) ELSE store

\* The orders the augment capability may return the candidates in.
Reorderings(list) ==
    LET n == Len(list)
        perms == {p \in [1..n -> 1..n] : \A i, j \in 1..n : i # j => p[i] # p[j]}
    IN {[i \in 1..n |-> list[p[i]]] : p \in perms}

\* Augmentation Stage: best effort; a failure of the capability is caught and the
\* ranking passed through, tagged "not augmented".
Augment(ranked, outcome, reordered) ==
    CASE outcome = "ok" -> [result |-> reordered, augmented |-> TRUE, stage |-> "ok"]
      [] outcome = "off" -> [result |-> ranked, augmented |-> FALSE, stage |-> "off"]
      [] OTHER -> [result |-> ranked, augmented |-> FALSE, stage |-> "failed"]

\* k >= 1 else InvalidQueryError
ValidK(k) == k >= 1

NoResponse ==
    [ q |-> "", k |-> 0, fp |-> None, hit |-> FALSE, aug |-> "off", ranked |-> <<>>,
      result |-> <<>>, augmented |-> FALSE, error |-> None ]

(* ------------------------------------------------------------------ *)
(* Calls                                                               *)
(* ------------------------------------------------------------------ *)
IdleCall ==
    [ pc |-> "idle", method |-> "", url |-> "", cfg |-> None, nreq |-> 0,
      req |-> None, resp |-> None, out |-> None ]

DoneCall == [IdleCall EXCEPT !.pc = "done"]

Settled(c) == c.pc \in {"resolved", "rejected"}

\* No settled promise is waiting for its caller: the event loop is between events.
Quiet == \A j \in CallIds : ~Settled(calls[j])

\* No interceptor is waiting to run: the microtask queue is empty, so the event
\* loop may take the next network event.
Drained == Quiet /\ \A j \in CallIds : calls[j].pc # "queued"

\* Call i's interceptor is the next to run: promise reactions run first in, first out.
Foremost(i) == Quiet /\ calls[i].pc = "queued"
               /\ \A j \in CallIds : j < i => calls[j].pc # "queued"

Init ==
    /\ hasWindow \in BOOLEAN
    /\ localStorage = [k \in {TokenKey} |-> None]
    /\ location = "/app"
    /\ loggedOut = FALSE
    /\ calls = [i \in CallIds |-> IdleCall]
    /\ corpus = 1
    /\ cache = {}
    /\ last = NoResponse

\* The application invokes client method m.
Call(i, m, u, c) ==
    /\ Quiet
    /\ calls[i].pc = "idle"
    /\ \A j \in CallIds : j < i => calls[j].pc # "idle"
    /\ calls' = [calls EXCEPT ![i] =
                    [IdleCall EXCEPT !.pc = "queued", !.method = m,
                                     !.url = RequestUrl(m, u),
                                     !.cfg = RequestConfig(m, c)]]
    /\ UNCHANGED <<hasWindow, localStorage, location, loggedOut, engineVars>>

\* The request interceptor runs and axios puts the request on the wire.
SendRequest(i) ==
    /\ Foremost(i)
    /\ calls' = [calls EXCEPT ![i] =
                    [@ EXCEPT !.pc = "sent",
                              !.nreq = @ + 1,
                              !.req = Some([ method  |-> HttpMethod(calls[i].method),
                                             url     |-> calls[i].url,
                                             auth    |-> AuthHeader(getAuthToken(hasWindow, localStorage)),
                                             timeout |-> EffectiveTimeout(calls[i].cfg) ])]]
    /\ UNCHANGED <<hasWindow, localStorage, location, loggedOut, engineVars>>

\* The response interceptor's error handler runs on err and the method rejects
\* with the ApiError it builds; the rejected promise holds nothing else of the call.
FailWith(i, err) ==
    /\ calls' = [calls EXCEPT ![i] =
                    [@ EXCEPT !.pc = "rejected", !.method = "", !.url = "",
                              !.req = None, !.cfg = None,
                              !.resp = Some(err),
                              !.out = Some(Rejected(ResponseErrorHandler(err)))]]
    /\ IF IsUnauthorized(err)
       THEN /\ localStorage' = UnauthorizedStorage(hasWindow, localStorage)
            /\ location' = UnauthorizedLocation(hasWindow, location)
            /\ loggedOut' = (hasWindow \/ loggedOut)
       ELSE UNCHANGED <<localStorage, location, loggedOut>>
    /\ UNCHANGED <<hasWindow, engineVars>>

\* The request cannot be set up: axios rejects with neither response nor request.
SetupFail(i) ==
    /\ Foremost(i)
    /\ FailWith(i, [response |-> None, request |-> FALSE, url |-> None,
                    code |-> Some("ERR_BAD_OPTION")])

\* The server answers 2xx.
RespondOk(i, body) ==
    /\ Drained
    /\ calls[i].pc = "sent"
    /\ body \in (IF calls[i].method = "downloadFile" THEN {BlobBody} ELSE OkBodies)
    /\ LET out == Continuation(calls[i].method, hasWindow, body) IN
       calls' = [calls EXCEPT ![i] =
                    [@ EXCEPT !.pc = out.kind, !.req = None, !.cfg = None,
                              !.resp = Some([response |-> Some([status |-> 200, data |-> body,
                                                                  url |-> Some(calls[i].url)]),
                                             request |-> TRUE, url |-> Some(calls[i].url),
                                             code |-> None]),
                              !.out = Some(out)]]
    /\ UNCHANGED <<hasWindow, localStorage, location, loggedOut, engineVars>>

\* The server answers with an error status.
RespondError(i, status, body) ==
    /\ Drained
    /\ calls[i].pc = "sent"
    /\ FailWith(i, [response |-> Some([status |-> status, data |-> body,
                                       url |-> Some(calls[i].url)]),
                    request |-> TRUE, url |-> Some(calls[i].url),
                    code |-> Some("ERR_BAD_RESPONSE")])

\* The connection fails: the request was made and no response arrived.
NetworkFail(i) ==
    /\ Drained
    /\ calls[i].pc = "sent"
    /\ FailWith(i, [response |-> None, request |-> TRUE, url |-> Some(calls[i].url),
                    code |-> Some("ERR_NETWORK")])

\* The request's timer fires (axios arms it only for a timeout > 0).
Timeout(i) ==
    /\ Drained
    /\ calls[i].pc = "sent"
    /\ calls[i].req[1].timeout > 0
    /\ FailWith(i, [response |-> None, request |-> TRUE, url |-> Some(calls[i].url),
                    code |-> Some("ECONNABORTED")])

\* The awaiting caller observes the settled promise.
Await(i) ==
    /\ Settled(calls[i])
    /\ calls' = [calls EXCEPT ![i] = DoneCall]
    /\ UNCHANGED <<hasWindow, localStorage, location, loggedOut, engineVars>>

\* The application's login stores a token.
StoreToken(t) ==
    /\ Quiet
    /\ hasWindow
    /\ localStorage' = setItem(localStorage, TokenKey, t)
    /\ loggedOut' = FALSE
    /\ UNCHANGED <<hasWindow, location, calls, engineVars>>

Next ==
    \/ \E i \in CallIds, m \in Methods, u \in Urls, c \in Configs : Call(i, m, u, c)
    \/ \E i \in CallIds : SendRequest(i)
    \/ \E i \in CallIds : SetupFail(i)
    \/ \E i \in CallIds, body \in OkBodies \cup {BlobBody} : RespondOk(i, body)
    \/ \E i \in CallIds, status \in ErrorStatuses, body \in ErrorBodies :
           RespondError(i, status, body)
    \/ \E i \in CallIds : NetworkFail(i)
    \/ \E i \in CallIds : Timeout(i)
    \/ \E i \in CallIds : Await(i)
    \/ \E t \in Tokens : StoreToken(t)

Spec == Init /\ [][Next]_vars

\* Scheduling: a queued interceptor runs, an armed timer fires, an awaiting caller
\* resumes.  Nothing obliges the server or the network to act.
Fairness ==
    /\ \A i \in CallIds : WF_vars(SendRequest(i) \/ SetupFail(i))
    /\ \A i \in CallIds : WF_vars(Timeout(i))
    /\ \A i \in CallIds : WF_vars(Await(i))

LiveSpec == Init /\ [][Next]_vars /\ Fairness

(* ------------------------------------------------------------------ *)
(* Engine operations                                                   *)
(* ------------------------------------------------------------------ *)
\* recommend(q, k), with the outcome of the cache write and of the augment call.
Recommend(q, k, putOk, outcome) ==
    /\ IF ~ValidK(k)
       THEN /\ last' = [NoResponse EXCEPT !.q = q, !.k = k, !.fp = Some(Fingerprint(corpus)),
                                          !.error = Some("InvalidQueryError")]
            /\ cache' = cache
       ELSE LET key == CacheKey(corpus, q)
                cached == get(cache, key)
                ranked == IF cached # None THEN Truncate(cached[1], k)
                          ELSE Rank(corpus, q, k)
            IN \E reordered \in (IF outcome = "ok" THEN Reorderings(ranked) ELSE {ranked}) :
                 LET final == Augment(ranked, outcome, reordered) IN
                 /\ last' = [ q |-> q, k |-> k, fp |-> Some(Fingerprint(corpus)),
                              hit |-> cached # None, aug |-> final.stage, ranked |-> ranked,
                              result |-> final.result, augmented |-> final.augmented,
                              error |-> None ]
                 /\ cache' = IF cached # None THEN cache
                             ELSE WriteThrough(cache, key, ranked, final.result, putOk)
    /\ UNCHANGED <<corpus, apiVars>>

\* The corpus is reloaded from a source with content c.
Reload(c) ==
    /\ corpus' = c
    /\ UNCHANGED <<cache, last, apiVars>>

EngineNext ==
    \/ \E q \in Queries, k \in Ks, putOk \in BOOLEAN, outcome \in AugOutcomes :
           Recommend(q, k, putOk, outcome)
    \/ \E c \in CorpusIds : Reload(c)

\* The engine runs in the server process: no browser state changes.
EngineInit == Init /\ hasWindow = FALSE

EngineSpec == EngineInit /\ [][EngineNext]_vars

(* ================================================================== *)
(* Properties of the HTTP client                                       *)
(* ================================================================== *)
IsApiError(e) == DOMAIN e = {"message", "code", "timestamp", "path", "details"}

\* The token the browser holds when a step starts: none outside a browser.
StoredToken == IF hasWindow THEN localStorage[TokenKey] ELSE None

\* Call i's request interceptor runs in this step.
Intercepted(i) == calls[i].pc = "queued" /\ calls'[i].pc = "sent"

\* Call i is rejected by a server response with this status.
RejectedWithStatus(i, status) ==
    /\ calls[i].pc = "rejected"
    /\ calls[i].resp[1].response # None
    /\ calls[i].resp[1].response[1].status = status

\* C1: whichever client method is called, when its request interceptor runs and
\* localStorage holds a non-empty 'auth_token', the request goes out with
\* Authorization = 'Bearer ' + that token; when no token is stored, the stored
\* token is empty, or there is no window, the interceptor adds no Authorization
\* header.
C1_TokenAttached ==
    [][\A i \in CallIds :
          Intercepted(i) =>
             IF StoredToken # None /\ StoredToken[1] # ""
             THEN calls'[i].req[1].auth = Some("Bearer " \o StoredToken[1])
             ELSE calls'[i].req[1].auth = None]_vars

\* An uploadFile request on the wire carrying the second token stored.
C1_Witness ==
    \E i \in CallIds :
       /\ calls[i].pc = "sent"
       /\ calls[i].method = "uploadFile"
       /\ localStorage[TokenKey] = Some("t2")
       /\ calls[i].req[1].auth = Some("Bearer t2")

\* C2 (state part): in a browser, once the response interceptor has handled a 401,
\* 'auth_token' is absent, the location is '/login' and the call is rejected with
\* an ApiError; and from a handled 401 until a token is stored, no token is held.
C2_LoggedOutState ==
    /\ \A i \in CallIds :
          (hasWindow /\ RejectedWithStatus(i, 401)) =>
             /\ localStorage[TokenKey] = None
             /\ location = LoginPage
             /\ loggedOut
             /\ calls[i].out[1].kind = "rejected"
             /\ IsApiError(calls[i].out[1].error[1])
    /\ loggedOut => localStorage[TokenKey] = None

\* C2 (step part): a request whose interceptor runs after the logout, before a new
\* token is stored, is sent without an Authorization header; and a 401 handled
\* while already logged out leaves the logged-out state as it is.
C2_LoggedOutStep ==
    /\ \A i \in CallIds : (loggedOut /\ Intercepted(i)) => calls'[i].req[1].auth = None
    /\ (loggedOut /\ loggedOut') =>
          (localStorage' = localStorage /\ location' = location)

\* C2: a 401 logs the browser out, for any number of 401s in any order.
C2_AutoLogout == []C2_LoggedOutState /\ [][C2_LoggedOutStep]_vars

\* A 401 has just been handled while another request, sent with the old token, is
\* still in flight.
C2_Witness ==
    \E i, j \in CallIds :
       /\ i # j
       /\ hasWindow
       /\ RejectedWithStatus(i, 401)
       /\ calls[j].pc = "sent"
       /\ calls[j].req[1].auth = Some("Bearer t1")
       /\ localStorage[TokenKey] = None
       /\ location = LoginPage

\* C3: every call that does not succeed rejects with an ApiError of one of three
\* kinds (server error: the body's code or UNKNOWN_ERROR, path the request url;
\* no response: NETWORK_ERROR; not set up: REQUEST_SETUP_ERROR, empty path), and
\* with nothing else.
C3_OnlyApiErrors ==
    \A i \in CallIds :
       calls[i].pc = "rejected" =>
          LET e == calls[i].out[1].error[1]
              err == calls[i].resp[1]
          IN /\ IsApiError(e)
             /\ \/ /\ err.response # None
                   /\ err.response[1].status \in ErrorStatuses
                   /\ e.code \in {"UNKNOWN_ERROR", "E1"}
                   /\ e.path = err.url[1]
                \/ /\ err.response = None /\ err.request
                   /\ e.code = "NETWORK_ERROR"
                \/ /\ err.response = None /\ ~err.request
                   /\ e.code = "REQUEST_SETUP_ERROR"
                   /\ e.path = ""

\* C4 as claimed: every call eventually settles, whatever the server does and
\* whatever config the caller passes.
C4_AlwaysSettles ==
    \A i \in CallIds :
       (calls[i].pc \in {"queued", "sent"}) ~> (calls[i].pc \in {"resolved", "rejected", "done"})

\* C4 amended: every call whose config does not set timeout: 0 eventually settles,
\* whatever the server does.
C4_SettlesUnlessTimeoutDisabled ==
    \A i \in CallIds :
       (calls[i].pc \in {"queued", "sent"} /\ calls[i].cfg # Some(0))
          ~> (calls[i].pc \in {"resolved", "rejected", "done"})

\* A call has been settled by its timer.
C4_Witness ==
    \E i \in CallIds :
       /\ calls[i].pc = "rejected"
       /\ calls[i].resp[1].code = Some("ECONNABORTED")
       /\ calls[i].out[1].error[1].code = "NETWORK_ERROR"

\* The verb and url the claim gives each method.
C5_Verb(m) ==
    CASE m \in {"get", "healthCheck"} -> "GET"
      [] m \in {"post", "uploadFile"} -> "POST"
      [] m = "put" -> "PUT"
      [] m = "patch" -> "PATCH"
      [] m = "delete" -> "DELETE"
      [] OTHER -> "GET"

EnvelopeMethods == Methods \ {"downloadFile"}

\* C5 (state part): a call on the wire has issued exactly one request, with its
\* method's verb, to the url given (healthCheck: GET /health); a resolved call of
\* an envelope method holds the data field of the response body.
C5_OneRequestAndData ==
    \A i \in CallIds :
       /\ calls[i].pc = "sent" =>
             /\ calls[i].nreq = 1
             /\ calls[i].req[1].method = C5_Verb(calls[i].method)
             /\ calls[i].req[1].url = (IF calls[i].method = "healthCheck" THEN "/health" ELSE "/users")
       /\ (calls[i].pc = "resolved" /\ calls[i].method \in EnvelopeMethods) =>
             /\ calls[i].nreq = 1
             /\ calls[i].out[1].value = calls[i].resp[1].response[1].data[1].data

\* C5 (step part): a 2xx response carrying an envelope resolves the call.
C5_EnvelopeResolves ==
    \A i \in CallIds :
       ( /\ calls[i].pc = "sent"
         /\ calls[i].method \in EnvelopeMethods
         /\ calls'[i].resp # None
         /\ calls'[i].resp[1].response # None
         /\ calls'[i].resp[1].response[1].status = 200
         /\ calls'[i].resp[1].response[1].data # None )
       => calls'[i].pc = "resolved"

\* C5: on a successful response each envelope method has issued one request with the
\* matching verb to the given url and resolves with the envelope's data.
C5_ResolvesWithData == []C5_OneRequestAndData /\ [][C5_EnvelopeResolves]_vars

\* An uploadFile call resolved with the envelope's data.
C5_Witness ==
    \E i \in CallIds :
       /\ calls[i].pc = "resolved"
       /\ calls[i].method = "uploadFile"
       /\ calls[i].nreq = 1
       /\ calls[i].out[1].value = Some("d1")

\* C9: for a server error the ApiError's message is the fixed client text for 403,
\* 404 and 500 whatever the body says, and otherwise the body's (non-empty) message
\* or the default; code, timestamp, path and details are what the body gives (or
\* their defaults) for every status.
C9_StatusMessages ==
    \A i \in CallIds :
       ( /\ calls[i].pc = "rejected"
         /\ calls[i].resp[1].response # None
         /\ calls[i].resp[1].response[1].status \in ErrorStatuses ) =>
          LET r == calls[i].resp[1].response[1]
              e == calls[i].out[1].error[1]
              has(f) == r.data # None /\ r.data[1][f] # None /\ r.data[1][f][1] # ""
          IN /\ e.message =
                   CASE r.status = 403 -> MsgForbidden
                     [] r.status = 404 -> MsgNotFound
                     [] r.status = 500 -> MsgInternal
                     [] OTHER -> IF has("message") THEN r.data[1].message[1] ELSE MsgDefault
             /\ e.code = (IF has("code") THEN r.data[1].code[1] ELSE "UNKNOWN_ERROR")
             /\ e.timestamp = (IF has("timestamp") THEN r.data[1].timestamp[1] ELSE Now)
             /\ e.path = r.url[1]
             /\ e.details = (IF r.data = None THEN None ELSE r.data[1].details)

\* A 403 whose body carries its own message is rejected with the client's text.
C9_Witness ==
    \E i \in CallIds :
       /\ RejectedWithStatus(i, 403)
       /\ calls[i].resp[1].response[1].data # None
       /\ calls[i].resp[1].response[1].data[1].message = Some("m")
       /\ calls[i].out[1].error[1].message = MsgForbidden
       /\ calls[i].out[1].error[1].code = "E1"

(* ================================================================== *)
(* Properties of the recommendation engine                             *)
(* ================================================================== *)
IsPrefix(a, b) == Len(a) <= Len(b) /\ SubSeq(b, 1, Len(a)) = a

\* The queries that share q's cache entry.
Equivalent(q) == {p \in Queries : QueryFingerprint(p) = QueryFingerprint(q)}

\* recommend has answered with a ranking.
Answered == last.fp # None /\ last.error = None

\* The corpus the latest call ran against.
AnsweredCorpus == CHOOSE c \in CorpusIds : Fingerprint(c) = last.fp[1]

\* C6 (state part): a ranking served from the cache comes from an entry created
\* under the fingerprint that was live at the call; a miss is computed afresh; so
\* every ranking is a truncation of the live corpus's ranking of the query (or of a
\* query sharing its fingerprint), never of another corpus's.
C6_NoStaleEntry ==
    Answered =>
       /\ last.hit =>
             \E e \in cache :
                /\ e.fp = last.fp[1]
                /\ e.qfp = QueryFingerprint(last.q)
                /\ last.ranked = Truncate(e.result, last.k)
       /\ ~last.hit => last.ranked = Rank(AnsweredCorpus, last.q, last.k)
       /\ \E p \in Equivalent(last.q) :
             IsPrefix(last.ranked, SortCandidates(Candidates(AnsweredCorpus, p)))

\* C6 (step part): recommend(q, k) called again under the same fingerprint returns
\* the identical ranked list.
C6_SameTwice ==
    ( /\ Answered /\ last'.error = None
      /\ last'.q = last.q /\ last'.k = last.k /\ last'.fp = last.fp )
    => last'.ranked = last.ranked

C7_BestEffortAugmentation ==
    /\ (last.fp # None /\ last.aug = "failed") =>
          /\ last.error = None
          /\ last.result = last.ranked
          /\ ~last.augmented
    /\ \A e \in cache :
          \E c \in CorpusIds, q \in Queries, k \in 1..MaxK :
             /\ e.fp = Fingerprint(c)
             /\ e.qfp = QueryFingerprint(q)
             /\ e.result = Rank(c, q, k)

\* Augmentation failed on a ranking of two entries that the cache holds.
C7_Witness ==
    /\ last.fp # None
    /\ last.aug = "failed"
    /\ Len(last.result) = 2
    /\ \E e \in cache :
          /\ e.fp = last.fp[1] /\ e.qfp = QueryFingerprint(last.q)
          /\ e.result = last.result

\* C8 (state part): for k >= 1 the ranking has at most k entries, at most as many
\* as there are candidates, no entry twice, in descending blended score with code
\* ascending between equal scores; k = 0 is answered with InvalidQueryError and no
\* ranking.
C8_RankingShape ==
    /\ Answered =>
          /\ last.k >= 1
          /\ Len(last.ranked) <= last.k
          /\ Len(last.result) <= last.k
          /\ \E p \in Equivalent(last.q) :
                Len(last.ranked) <= Cardinality(Candidates(AnsweredCorpus, p))
          /\ \A i, j \in 1..Len(last.ranked) :
                i < j =>
                   \/ last.ranked[i].blended > last.ranked[j].blended
                   \/ /\ last.ranked[i].blended = last.ranked[j].blended
                      /\ last.ranked[i].code < last.ranked[j].code
    /\ (last.fp # None /\ last.k = 0) =>
          /\ last.error = Some("InvalidQueryError")
          /\ last.result = <<>>

\* C8 (step part): a call rejected with InvalidQueryError has not touched the cache.
C8_RejectedBeforeWork == last'.error # None => cache' = cache

====
